---- MODULE Spec2Model ----
(***************************************************************************)
(* Custom-Indexes: a market-cap weighted index builder.                    *)
(*                                                                         *)
(* Part I   the index build: refine_data (src/data/processing.py) followed *)
(*          by add_weightings / _fix_rounding (src/allocations.py).        *)
(* Part II  the provider pool: ProviderPool (src/clients/providerpool.py), *)
(*          BaseProvider (src/clients/provider.py) and the Reconciler      *)
(*          (src/data/reconciler.py).                                      *)
(*                                                                         *)
(* Numbers.  Market caps are positive integers.  The source computes the   *)
(* percentages in binary floating point; the model computes them exactly,  *)
(* as integers: a weight rounded to P decimal places is an integer count   *)
(* of 10^-P, a "unit" of _fix_rounding is 10^-(P-1), ten of those.         *)
(* The minimum weight is a decimal literal m / 10^d, kept as [m, d].       *)
(* Where the double-precision result of the source differs from the exact  *)
(* one on an input of the model, the difference is modelled: see           *)
(* FloatFloorLow.                                                          *)
(***************************************************************************)
EXTENDS Integers, Sequences, FiniteSets, TLC

(***************************************************************************)
(* Bounds of the model.                                                    *)
(***************************************************************************)
MaxRows == 3        \* rows of an enumerated input table
MaxCap == 3         \* largest market cap of an enumerated input row

(***************************************************************************)
(* Configuration (config.yaml, read by ConfigHandler).                     *)
(***************************************************************************)
\* config.volume_limit_min: rows need volume strictly above it.
volume_limit_min == 1

\* config.symbol_merge: {merge: into}; the rule of the shipped configuration.
symbol_merge == << [merge |-> "BRK.A", into |-> "BRK.B"] >>

\* using[KEY_INDEX_SORTBY] values a configuration can hold.
SortByValues == {"market_cap", "volume"}

(***************************************************************************)
(* Arithmetic helpers.                                                     *)
(***************************************************************************)
RECURSIVE Pow10(_)
Pow10(n) == IF n <= 0 THEN 1 ELSE 10 * Pow10(n - 1)

RECURSIVE SumSeq(_)
SumSeq(s) == IF Len(s) = 0 THEN 0 ELSE Head(s) + SumSeq(Tail(s))

SetMin(S) == CHOOSE x \in S : \A y \in S : x <= y

\* round(x, k) of numpy/pandas on the exact quotient num/den: to the nearest
\* integer, a tie to the even one.
RoundHalfEven(num, den) ==
    LET q == num \div den
        r == num % den
    IN  IF 2 * r < den THEN q
        ELSE IF 2 * r > den THEN q + 1
        ELSE IF q % 2 = 0 THEN q ELSE q + 1

(***************************************************************************)
(* allocations.py                                                          *)
(***************************************************************************)
\* _decimal_places(num): Decimal(str(num)).normalize() drops trailing zeros;
\* an integral value has 0 places, otherwise abs(exponent).
RECURSIVE decimal_places(_)
decimal_places(num) ==
    IF num.d = 0 THEN 0
    ELSE IF num.m % 10 = 0 THEN decimal_places([m |-> num.m \div 10, d |-> num.d - 1])
    ELSE num.d

\* precision = _decimal_places(min_weight) + 2
Precision(mw) == decimal_places(mw) + 2

\* min_weight in counts of 10^-P (exact: P >= its decimal places + 2).
MinWeightAt(mw, P) == (mw.m * Pow10(P)) \div Pow10(mw.d)

MCs(rows) == [i \in 1..Len(rows) |-> rows[i].market_cap]

\* round(df[COL_MC] / df[COL_MC].sum() * 100, precision), in counts of 10^-P.
\* On an empty table the result is the empty column.
RoundedWeights(rows, P) ==
    LET total == SumSeq(MCs(rows))
    IN  [i \in 1..Len(rows) |->
            RoundHalfEven(rows[i].market_cap * 100 * Pow10(P), total)]

\* (mutant) the rows come back in reverse order.
WithWeights_Reversed(rows, w) ==
    [i \in 1..Len(rows) |->
        [symbol |-> rows[Len(rows) + 1 - i].symbol,
         market_cap |-> rows[Len(rows) + 1 - i].market_cap,
         volume |-> rows[Len(rows) + 1 - i].volume, weighted |-> w[i]]]

\* df_index[COL_WEIGHT] = round(...): the table with its weight column set.
WithWeights(rows, w) ==
    [i \in 1..Len(rows) |->
        [symbol |-> rows[i].symbol, market_cap |-> rows[i].market_cap,
         volume |-> rows[i].volume, weighted |-> w[i]]]

\* (mutant) the loop never finds a weight below the minimum.
BelowMin_Never(rows, mw, P) == FALSE

\* df_index[COL_WEIGHT].min() < min_weight; the min of an empty column is
\* NaN and NaN < x is False.
BelowMin(rows, mw, P) ==
    /\ Len(rows) > 0
    /\ SetMin({rows[i].weighted : i \in 1..Len(rows)}) < MinWeightAt(mw, P)

\* (mutant) the first row is dropped instead of the last.
DropFirst(rows) == SubSeq(rows, 2, Len(rows))

\* df_index.iloc[:-1]
DropLast(rows) == SubSeq(rows, 1, Len(rows) - 1)

\* _fix_rounding, lines 72-75: scale, exact units (as numerators over the
\* total), floored base units, remainders (numerators over the total).
Scale(P) == Pow10(P - 1)

ExactNum(rows, P) == [i \in 1..Len(rows) |-> rows[i].market_cap * 100 * Scale(P)]

\* Line 73 is evaluated in IEEE-754 doubles, ((mc / total) * 100) * scale,
\* and line 74 floors the double.  Where the exact value is a whole number
\* the double can come out just below it (103 / 125 * 100 * 10 is
\* 823.9999999999999, not 824): the floor is then one less than the exact
\* quotient and the remainder is just under a whole unit.  The cases among
\* the (market cap, total, scale) triples of the model's inputs; on every
\* other triple of the model the double floors to the exact quotient.
FloatFloorLow ==
    { [market_cap |-> 103, total |-> 125, scale |-> 10],
      [market_cap |-> 22, total |-> 125, scale |-> 10] }

FloorsLow(mc, total, scale) ==
    [market_cap |-> mc, total |-> total, scale |-> scale] \in FloatFloorLow

\* (mutant) the exact units are rounded half up instead of floored.
BaseUnits_Rounded(rows, P) ==
    LET total == SumSeq(MCs(rows))
    IN  [i \in 1..Len(rows) |-> (2 * ExactNum(rows, P)[i] + total) \div (2 * total)]

BaseUnits(rows, P) ==
    LET total == SumSeq(MCs(rows))
    IN  [i \in 1..Len(rows) |->
            IF FloorsLow(rows[i].market_cap, total, Scale(P))
            THEN (ExactNum(rows, P)[i] \div total) - 1
            ELSE ExactNum(rows, P)[i] \div total]

\* Numerators over the total; a row whose double floored low has a remainder
\* above every exact one (just under the whole unit, total / total).
Remainders(rows, P) ==
    LET total == SumSeq(MCs(rows))
    IN  [i \in 1..Len(rows) |->
            IF FloorsLow(rows[i].market_cap, total, Scale(P))
            THEN total
            ELSE ExactNum(rows, P)[i] % total]

\* units_to_add = int(round(100 * scale - s_base_units.sum()))
UnitsToAdd(rows, P) == 100 * Scale(P) - SumSeq(BaseUnits(rows, P))

\* s_remainders.sort_values(ascending=False).iloc[:units_to_add].index
\* sort_values sorts with kind="quicksort", which is not stable: among equal
\* remainders the order is whatever the numpy build produces.  BumpSets is
\* every index set the call can return: the rows that are in the first
\* units_to_add places under every order (Sure) and any choice among the
\* rows tied on the boundary (Tied).
BumpSets(rem, units) ==
    LET n == Len(rem)
        AtLeast(i) == {j \in 1..n : rem[j] >= rem[i]}
        Above(i) == {j \in 1..n : rem[j] > rem[i]}
        Sure == {i \in 1..n : Cardinality(AtLeast(i)) <= units}
        Tied == {i \in (1..n) \ Sure : Cardinality(Above(i)) < units}
        k == units - Cardinality(Sure)
    IN  IF units >= n THEN {1..n}
        ELSE {Sure \cup T : T \in {X \in SUBSET Tied : Cardinality(X) = k}}

\* (mutant) the bump is lost: the floored base units are written back.
FixedWeights_NoBump(rows, P, bump) ==
    [i \in 1..Len(rows) |-> 10 * BaseUnits(rows, P)[i]]

\* (mutant) the bump is applied with the wrong sign.
FixedWeights_BumpDown(rows, P, bump) ==
    [i \in 1..Len(rows) |->
        10 * (IF i \in bump THEN BaseUnits(rows, P)[i] - 1 ELSE BaseUnits(rows, P)[i])]

\* _fix_rounding, lines 80-88, for one outcome `bump` of the sort: the bumped
\* base units written back as df[COL_WEIGHT] = s_base_units / scale (a unit
\* is ten counts of 10^-P).
FixedWeights(rows, P, bump) ==
    LET base == BaseUnits(rows, P)
    IN  [i \in 1..Len(rows) |-> 10 * (IF i \in bump THEN base[i] + 1 ELSE base[i])]

\* The index sets _fix_rounding can bump: none unless units_to_add > 0.
FixRoundingBumps(rows, P) ==
    IF UnitsToAdd(rows, P) > 0
    THEN BumpSets(Remainders(rows, P), UnitsToAdd(rows, P))
    ELSE {{}}

(***************************************************************************)
(* data/processing.py                                                      *)
(***************************************************************************)
Indices(rows, sym) == {i \in 1..Len(rows) : rows[i].symbol = sym}

SelectIdx(rows, keep) ==
    LET RECURSIVE Go(_)
        Go(i) == IF i > Len(rows) THEN << >>
                 ELSE (IF i \in keep THEN << rows[i] >> ELSE << >>) \o Go(i + 1)
    IN  Go(1)

\* (mutant) the merge row is removed and its market cap is not added.
MergeOne_NoSum(rows, rule) ==
    LET merge_mask == Indices(rows, rule.merge)
        into_mask == Indices(rows, rule.into)
        renamed == [i \in 1..Len(rows) |->
                      IF i \in merge_mask
                      THEN [rows[i] EXCEPT !.symbol = rule.into]
                      ELSE rows[i]]
    IN  IF merge_mask = {} THEN rows
        ELSE IF into_mask # {}
             THEN SelectIdx(rows, (1..Len(rows)) \ merge_mask)
             ELSE renamed

\* One rule of _merge_symbols (lines 334-348).
MergeOne(rows, rule) ==
    LET merge_mask == Indices(rows, rule.merge)
        into_mask == Indices(rows, rule.into)
        first == SetMin(merge_mask)
        market_cap == rows[first].market_cap
        summed == [i \in 1..Len(rows) |->
                     IF i \in into_mask
                     THEN [rows[i] EXCEPT !.market_cap = @ + market_cap]
                     ELSE rows[i]]
        renamed == [i \in 1..Len(rows) |->
                      IF i \in merge_mask
                      THEN [rows[i] EXCEPT !.symbol = rule.into]
                      ELSE rows[i]]
    IN  IF merge_mask = {} THEN rows
        ELSE IF into_mask # {}
             THEN SelectIdx(summed, (1..Len(rows)) \ merge_mask)
             ELSE renamed

\* _merge_symbols: every rule of config.symbol_merge in turn.
RECURSIVE merge_symbols(_, _)
merge_symbols(rows, rules) ==
    IF Len(rules) = 0 THEN rows
    ELSE merge_symbols(MergeOne(rows, Head(rules)), Tail(rules))

\* df.sort_values(by=COL_MC, ascending=False): kind="quicksort" is not
\* stable, so rows of equal market cap come out in any order.  The set of
\* every descending arrangement of the rows.
RECURSIVE SortDescOf(_, _)
SortDescOf(rows, S) ==
    IF S = {} THEN { << >> }
    ELSE LET top_mc == CHOOSE c \in {rows[i].market_cap : i \in S} :
                         \A j \in S : rows[j].market_cap <= c
             firsts == {i \in S : rows[i].market_cap = top_mc}
         IN  UNION { { << rows[i] >> \o t : t \in SortDescOf(rows, S \ {i}) } : i \in firsts }

sort_values(rows) == SortDescOf(rows, 1..Len(rows))

\* _filter_by_list_date: the age cutoffs are commented out in the source
\* (lines 259-262); the call only normalises the dates and drops no row.
filter_by_list_date(rows) == rows

\* (mutant) head() is forgotten.
HeadRows_All(rows, n) == rows

\* df.head(n)
HeadRows(rows, n) == SubSeq(rows, 1, IF n < Len(rows) THEN n ELSE Len(rows))

\* (mutant) the volume filter keeps rows at the limit (>= for >).
Filtered_VolumeAtLimit(sorted) ==
    SelectSeq(SelectSeq(sorted, LAMBDA r : r.market_cap > 0),
              LAMBDA r : r.volume >= volume_limit_min)

\* refine_data lines 190-201 on a sorted table: the three filters, then head.
Filtered(sorted) ==
    filter_by_list_date(
        SelectSeq(SelectSeq(sorted, LAMBDA r : r.market_cap > 0),
                  LAMBDA r : r.volume > volume_limit_min))

\* transform.sort_by_to_df_column raises ValueError unless "market_cap".
SortByKnown(sort_by) == sort_by = "market_cap"

(***************************************************************************)
(* Inputs of the build.                                                    *)
(***************************************************************************)
\* The symbols row i of an enumerated table can carry.
Tickers == << {"AAPL", "BRK.A"}, {"BRK.B"}, {"MSFT"}, {"NVDA"}, {"BTC"} >>

MinWeights ==
    { [m |-> 10, d |-> 0],      \* 10
      [m |-> 25, d |-> 1],      \* 2.5
      [m |-> 250, d |-> 2],     \* 2.50
      [m |-> 334, d |-> 1],     \* 33.4
      [m |-> 50, d |-> 0],      \* 50
      [m |-> 101, d |-> 0] }    \* 101: above any weight

\* Tables of 1..MaxRows rows with distinct symbols.
RowsAt(i) ==
    { [symbol |-> s, market_cap |-> c, volume |-> v] :
        s \in Tickers[i], c \in 0..MaxCap,
        v \in {volume_limit_min, volume_limit_min + 1} }

RECURSIVE TablesOfLen(_)
TablesOfLen(n) ==
    IF n = 0 THEN { << >> }
    ELSE { Append(t, r) : t \in TablesOfLen(n - 1), r \in RowsAt(n) }

Tables == UNION { TablesOfLen(n) : n \in 1..MaxRows }

LiquidTable(caps) ==
    [i \in 1..Len(caps) |->
        [symbol |-> ToString(i), market_cap |-> caps[i],
         volume |-> volume_limit_min + 1]]

\* The worked example of the specification: caps 500, 300, 150, 50, min 10.
ExampleCaps == << 500, 300, 150, 50 >>

\* 33 caps summing to 100000: 32 of them are n.97 units (at one decimal),
\* the smallest is 9.96 units, 0.996 percent.
NearMinCaps == << 18497 >> \o [i \in 1..31 |-> 100 * (41 - i) + 97] \o << 996 >>

\* Two caps whose exact units, 824 and 176, both come out of the double
\* computation just below the whole number.
FloorLowCaps == << 103, 22 >>

Scenarios ==
    { [dfs |-> LiquidTable(ExampleCaps), top |-> 4, min_weight |-> [m |-> 10, d |-> 0]],
      [dfs |-> LiquidTable(NearMinCaps), top |-> 33, min_weight |-> [m |-> 1, d |-> 0]],
      [dfs |-> LiquidTable(FloorLowCaps), top |-> 2, min_weight |-> [m |-> 10, d |-> 0]] }

(***************************************************************************)
(* Part I: state of one index build.                                       *)
(***************************************************************************)
VARIABLES
    dfs,            \* refine_data's input tables, concatenated
    sort_by,        \* using[KEY_INDEX_SORTBY]
    top,            \* using[KEY_INDEX_TOP]
    min_weight,     \* criteria[KEY_INDEX_WEIGHT_MIN], as [m, d]
    pc,             \* where the build is
    df_merged,      \* refine_data's table after _merge_symbols (line 184)
    df,             \* refine_data's result, add_weightings' argument
    df_index,       \* add_weightings' working table
    units_to_add    \* _fix_rounding's units_to_add: << >> before it runs, then << n >>

buildVars == << dfs, sort_by, top, min_weight, pc, df_merged, df, df_index, units_to_add >>

(* Part II: state of the provider pool. *)
VARIABLES
    mixins,          \* mixins[p]: the capabilities provider p implements
    cooldown_until,  \* cooldown_until[p]
    index,           \* ProviderPool._index
    now,             \* the clock, in seconds
    fpc,             \* where the current _fetch call is
    ptype,           \* its ptype
    tried,           \* its tried set (provider names)
    reconciler,      \* its Reconciler
    provider,        \* the provider _next returned (0: none)
    waits,           \* _wait calls made by the current _next call
    scan_i,          \* _next's loop variable i when it returned
    result,          \* what the last _fetch call returned
    fetches,         \* _fetch calls made so far
    limits,          \* rate-limited provider calls so far
    picks            \* the selections made while no provider was ever cooled

fetchVars == << mixins, cooldown_until, index, now, fpc, ptype, tried, reconciler,
                provider, waits, scan_i, result, fetches, limits, picks >>

(* Part II, broadcast calls: fetch_stock_listings / fetch_crypto_market. *)
VARIABLES
    bpc,             \* where the current broadcast call is
    btype,           \* the capability it asks for
    except_from,     \* fetch_stock_listings' argument: << >> is None, << S >> a list
    providers,       \* the providers still to be called, in order
    called,          \* the providers called so far, in order
    frames,          \* the frames dictionary
    broadcasts       \* broadcast calls made so far

bcastVars == << bpc, btype, except_from, providers, called, frames, broadcasts >>

poolVars == << fetchVars, bcastVars >>

(* Part III: state of one merge_on_symbols call. *)
VARIABLES
    df_canonical,    \* the canonical rows
    df_data,         \* the provider data
    mpc,             \* where the call is
    df_result        \* the table it returned

mergeVars == << df_canonical, df_data, mpc, df_result >>

(* Part IV: a Reconciler on its own, merge_stock_listings, get_ohlcv. *)
VARIABLES
    adds,            \* the (data, source) arguments of the add calls made so far
    listings,        \* merge_stock_listings' frames argument
    lpc,             \* where the merge_stock_listings call is
    df_accum,        \* the table it returned
    loaded,          \* get_ohlcv: the days store.load_ohlcv returned rows for
    answers,         \* the days _POOL.fetch_ohlcv has rows for
    store,           \* the days the OHLCV store holds
    opc,             \* where the get_ohlcv call is
    ohlcv            \* the rows get_ohlcv returned

serviceVars == << adds, listings, lpc, df_accum, loaded, answers, store, opc, ohlcv >>

BuildInit ==
    /\ \/ /\ dfs \in Tables
          /\ top \in 1..MaxRows
          /\ min_weight \in MinWeights
          /\ sort_by \in SortByValues
       \/ \E s \in Scenarios :
             /\ dfs = s.dfs
             /\ top = s.top
             /\ min_weight = s.min_weight
             /\ sort_by = "market_cap"
    /\ pc = "refine_data"
    /\ df_merged = << >>
    /\ df = << >>
    /\ df_index = << >>
    /\ units_to_add = << >>

\* refine_data, lines 183-209.
RefineReturns ==
    /\ pc = "refine_data"
    /\ SortByKnown(sort_by)
    /\ \E sorted \in sort_values(merge_symbols(dfs, symbol_merge)) :
          LET head == HeadRows(Filtered(sorted), top)
          IN  /\ Len(head) >= top
              /\ df' = head
              /\ pc' = "add_weightings"
    /\ df_merged' = merge_symbols(dfs, symbol_merge)
    /\ UNCHANGED << dfs, sort_by, top, min_weight, df_index, units_to_add >>
    /\ UNCHANGED poolVars
    /\ UNCHANGED mergeVars
    /\ UNCHANGED serviceVars

RefineRaises ==
    /\ pc = "refine_data"
    /\ \/ ~SortByKnown(sort_by)
       \/ /\ SortByKnown(sort_by)
          /\ \E sorted \in sort_values(merge_symbols(dfs, symbol_merge)) :
                Len(HeadRows(Filtered(sorted), top)) < top
    /\ pc' = "ValueError"
    /\ df_merged' = merge_symbols(dfs, symbol_merge)
    /\ UNCHANGED << dfs, sort_by, top, min_weight, df, df_index, units_to_add >>
    /\ UNCHANGED poolVars
    /\ UNCHANGED mergeVars
    /\ UNCHANGED serviceVars

\* add_weightings, lines 31-36.
FirstWeights ==
    /\ pc = "add_weightings"
    /\ df_index' = WithWeights(df, RoundedWeights(df, Precision(min_weight)))
    /\ pc' = "pruning"
    /\ UNCHANGED << dfs, sort_by, top, min_weight, df_merged, df, units_to_add >>
    /\ UNCHANGED poolVars
    /\ UNCHANGED mergeVars
    /\ UNCHANGED serviceVars

\* add_weightings, lines 37-44: one iteration of the pruning loop.
Prune ==
    /\ pc = "pruning"
    /\ BelowMin(df_index, min_weight, Precision(min_weight))
    /\ LET rest == DropLast(df_index)
       IN  df_index' = WithWeights(rest, RoundedWeights(rest, Precision(min_weight)))
    /\ UNCHANGED << dfs, sort_by, top, min_weight, pc, df_merged, df, units_to_add >>
    /\ UNCHANGED poolVars
    /\ UNCHANGED mergeVars
    /\ UNCHANGED serviceVars

\* add_weightings, lines 45-51: the loop ends, _fix_rounding, return.
FixRounding ==
    /\ pc = "pruning"
    /\ ~BelowMin(df_index, min_weight, Precision(min_weight))
    /\ LET P == Precision(min_weight)
       IN  /\ units_to_add' = << UnitsToAdd(df_index, P) >>
           /\ \E bump \in FixRoundingBumps(df_index, P) :
                 df_index' = WithWeights(df_index, FixedWeights(df_index, P, bump))
    /\ pc' = "returned"
    /\ UNCHANGED << dfs, sort_by, top, min_weight, df_merged, df >>
    /\ UNCHANGED poolVars
    /\ UNCHANGED mergeVars
    /\ UNCHANGED serviceVars

BuildNext ==
    \/ RefineReturns
    \/ RefineRaises
    \/ FirstWeights
    \/ Prune
    \/ FixRounding

(***************************************************************************)
(* Part II: clients/provider.py, data/reconciler.py, clients/providerpool.py *)
(***************************************************************************)
MaxFetches == 2     \* _fetch calls made on the pool
MaxLimits == 1      \* provider calls answered with APILimitReachedError
MaxPicks == 4       \* selections recorded while no provider was ever cooled

\* BaseProvider.cooldown_seconds = timedelta(seconds=60)
cooldown_seconds == 60

\* The pool of services/fetcher.py: ProviderPool([Finnhub, Polygon, CMC]).
Names == << "finnhub", "polygon", "coin-market-cap" >>

Providers == 1..Len(Names)

\* The capabilities _fetch is called with (fetch_stock_data, fetch_ohlcv).
PTypes == {"MixinStockDetails", "MixinOhlcv"}

\* The mixins each provider of the pool implements: pools the constructor
\* accepts.
Pools ==
    { << PTypes, PTypes, PTypes >>,
      << PTypes, {"MixinStockDetails"}, PTypes >>,
      << {"MixinStockDetails"}, PTypes, {} >> }

\* consts.CRITICAL_COLUMNS
CRITICAL_COLUMNS == {"list_date", "market_cap", "symbol", "type", "volume"}

\* A provider's answer is a one-row frame, a function from its columns to
\* values, or the empty frame.  "NaN" is a missing value, "0" is zero, any
\* other value is named after the provider that supplied it.
EmptyFrame == << >>

IsEmpty(frame) == DOMAIN frame = {}

Frame(list_date, market_cap, name) ==
    [c \in (IF list_date = "absent" THEN CRITICAL_COLUMNS \ {"list_date"}
            ELSE CRITICAL_COLUMNS) |->
        CASE c = "list_date" -> list_date
          [] c = "market_cap" -> market_cap
          [] OTHER -> name]

\* The answers provider p can give: nothing, a complete row, a row without
\* the list_date column, rows with a missing list date or market cap, rows
\* with a zero market cap.
ProviderFrames(p) ==
    LET v == Names[p]
    IN  { EmptyFrame, Frame(v, v, v), Frame("absent", v, v), Frame("NaN", v, v),
          Frame(v, "NaN", v), Frame(v, "0", v), Frame("NaN", "0", v) }

\* Reconciler.__init__
NewReconciler ==
    [col_ready |-> [c \in CRITICAL_COLUMNS |-> FALSE],
     data |-> EmptyFrame,
     source |-> "None",
     is_ready |-> FALSE]

\* (mutant) every column the new frame carries is written.
Merged_Overwrites(rec, data) ==
    IF IsEmpty(rec.data) THEN data
    ELSE [c \in DOMAIN rec.data \cup DOMAIN data |->
             IF c \in DOMAIN data THEN data[c] ELSE rec.data[c]]

\* Reconciler.add, lines 64-70: the first non-empty frame becomes the base;
\* later ones write every critical column that is not ready and that they
\* carry (self._data.loc[0, col] = ..., which also adds a missing column).
Merged(rec, data) ==
    IF IsEmpty(rec.data) THEN data
    ELSE LET written == {c \in CRITICAL_COLUMNS :
                            ~rec.col_ready[c] /\ c \in DOMAIN data}
         IN  [c \in DOMAIN rec.data \cup written |->
                 IF c \in written THEN data[c] ELSE rec.data[c]]

\* (mutant) a critical column the frame lacks is not ready.
ColReady_AbsentNotReady(frame) ==
    [c \in CRITICAL_COLUMNS |->
        /\ c \in DOMAIN frame
        /\ frame[c] # "NaN" /\ ~(c = "market_cap" /\ frame[c] = "0")]

\* Reconciler.add, lines 72-79.
ColReady(frame) ==
    [c \in CRITICAL_COLUMNS |->
        IF c \in DOMAIN frame
        THEN frame[c] # "NaN" /\ ~(c = "market_cap" /\ frame[c] = "0")
        ELSE TRUE]

\* (mutant) the source follows the last frame added.
ReconcilerAdd_LastSource(rec, data, source) ==
    IF IsEmpty(data) THEN rec
    ELSE LET merged == Merged(rec, data)
             ready == ColReady(merged)
         IN  [col_ready |-> ready,
              data |-> merged,
              source |-> source,
              is_ready |-> \A c \in CRITICAL_COLUMNS : ready[c]]

\* (mutant) an empty frame resets the reconciler.
ReconcilerAdd_ResetsOnEmpty(rec, data, source) ==
    IF IsEmpty(data) THEN NewReconciler
    ELSE LET merged == Merged(rec, data)
             ready == ColReady(merged)
         IN  [col_ready |-> ready,
              data |-> merged,
              source |-> IF IsEmpty(rec.data) THEN source ELSE rec.source,
              is_ready |-> \A c \in CRITICAL_COLUMNS : ready[c]]

\* Reconciler.add(data, source)
ReconcilerAdd(rec, data, source) ==
    IF IsEmpty(data) THEN rec
    ELSE LET merged == Merged(rec, data)
             ready == ColReady(merged)
         IN  [col_ready |-> ready,
              data |-> merged,
              source |-> IF IsEmpty(rec.data) THEN source ELSE rec.source,
              is_ready |-> \A c \in CRITICAL_COLUMNS : ready[c]]

\* BaseProvider.is_available: now >= self.cooldown_until
is_available(until, t) == t >= until

\* (mutant) _wait sleeps a second short of the soonest expiry.
SleepFor_Short(soonest, t) == IF soonest - t - 1 > 0 THEN soonest - t - 1 ELSE 0

\* _wait: sleep_for = max(0.0, (soonest - now).total_seconds() + 1)
SleepFor(soonest, t) == IF soonest - t + 1 > 0 THEN soonest - t + 1 ELSE 0

\* time.sleep(d) returns after at least d seconds.
OverSleep == {0, 1}

\* Seconds that pass before a _fetch call is made.
Elapsed == {0, 60}

\* ProviderPool._providers_typed(ptype), as indexes into the pool's list.
providers_typed(t) ==
    SelectSeq([p \in Providers |-> p], LAMBDA p : t \in mixins[p])

NoResult == [data |-> EmptyFrame, source |-> "None"]

\* BaseProvider.__init__ and ProviderPool.__init__.
PoolInit ==
    /\ mixins \in Pools
    /\ cooldown_until = [p \in Providers |-> 0 - cooldown_seconds]
    /\ index = 0
    /\ now = 0
    /\ fpc = "idle"
    /\ ptype = "None"
    /\ tried = {}
    /\ reconciler = NewReconciler
    /\ provider = 0
    /\ waits = 0
    /\ scan_i = 0
    /\ result = NoResult
    /\ fetches = 0
    /\ limits = 0
    /\ picks = << >>

NeverCooled == \A p \in Providers : cooldown_until[p] < 0

\* BaseProvider.mark_unavailable
MarkUnavailable(p) ==
    cooldown_until' = [cooldown_until EXCEPT ![p] = now + cooldown_seconds]

\* (mutant) tried.add is forgotten.
TriedAfter_Forgets(tried_, name) == tried_

\* (mutant) the loop gives up one provider early.
KeepsTrying_OneShort(tried_, typed) == Cardinality(tried_) + 1 < Len(typed)

\* _fetch line 130: while len(tried) < len(self._providers_typed(ptype))
KeepsTrying(tried_, typed) == Cardinality(tried_) < Len(typed)

\* _fetch line 137: tried.add(provider.name)
TriedAfter(tried_, name) == tried_ \cup {name}

\* (mutant) the loop goes on after the reconciler is ready.
StopsEarly_Never(rec) == FALSE

\* _fetch lines 139-140: if reconciler.is_ready: return data, source
StopsEarly(rec) == rec.is_ready

\* (mutant) what the reconciler gathered is returned on exhaustion.
ExhaustedResult_Partial(rec) == [data |-> rec.data, source |-> rec.source]

\* _fetch line 147: return pd.DataFrame(), None
ExhaustedResult(rec) == NoResult

\* fetch_ohlcv / fetch_stock_data call _fetch; _fetch lines 126-128.
FetchStart ==
    /\ fpc = "idle"
    /\ fetches < MaxFetches
    /\ fetches' = fetches + 1
    /\ ptype' \in PTypes
    /\ \E d \in Elapsed : now' = now + d
    /\ tried' = {}
    /\ reconciler' = NewReconciler
    /\ result' = NoResult
    /\ fpc' = "loop"
    /\ UNCHANGED << scan_i, mixins, cooldown_until, index, provider, waits, limits, picks >>
    /\ UNCHANGED bcastVars
    /\ UNCHANGED buildVars
    /\ UNCHANGED mergeVars
    /\ UNCHANGED serviceVars

\* _fetch line 130: another round, and _next is entered.
FetchLoop ==
    /\ fpc = "loop"
    /\ KeepsTrying(tried, providers_typed(ptype))
    /\ fpc' = "next"
    /\ waits' = 0
    /\ UNCHANGED << scan_i, mixins, cooldown_until, index, now, ptype, tried, reconciler,
                    provider, result, fetches, limits, picks >>
    /\ UNCHANGED bcastVars
    /\ UNCHANGED buildVars
    /\ UNCHANGED mergeVars
    /\ UNCHANGED serviceVars

\* _fetch lines 146-147: every provider was tried.
FetchExhausted ==
    /\ fpc = "loop"
    /\ ~KeepsTrying(tried, providers_typed(ptype))
    /\ result' = ExhaustedResult(reconciler)
    /\ fpc' = "idle"
    /\ UNCHANGED << scan_i, mixins, cooldown_until, index, now, ptype, tried, reconciler,
                    provider, waits, fetches, limits, picks >>
    /\ UNCHANGED bcastVars
    /\ UNCHANGED buildVars
    /\ UNCHANGED mergeVars
    /\ UNCHANGED serviceVars

\* (mutant) the scan takes the provider under the cursor, cooling or not.
Scan_IgnoresCooldown(typed) ==
    LET n == Len(typed)
    IN  IF \A i \in 0..(n - 1) :
              ~is_available(cooldown_until[typed[((index + i) % n) + 1]], now)
        THEN [found |-> FALSE, p |-> 0, index |-> index, i |-> 0]
        ELSE [found |-> TRUE, p |-> typed[(index % n) + 1],
              index |-> (index + 1) % n, i |-> 0]

\* _next lines 176-181: the first available provider from the cursor on.
Scan(typed) ==
    LET n == Len(typed)
        hits == {i \in 0..(n - 1) :
                    is_available(cooldown_until[typed[((index + i) % n) + 1]], now)}
    IN  IF hits = {} THEN [found |-> FALSE, p |-> 0, index |-> index, i |-> 0]
        ELSE LET i == SetMin(hits)
             IN  [found |-> TRUE, p |-> typed[((index + i) % n) + 1],
                  index |-> (index + i + 1) % n, i |-> i]

NextSelects ==
    /\ fpc = "next"
    /\ LET s == Scan(providers_typed(ptype))
       IN  /\ s.found
           /\ provider' = s.p
           /\ index' = s.index
           /\ scan_i' = s.i
           /\ picks' = IF NeverCooled /\ Len(picks) < MaxPicks
                       THEN Append(picks, [ptype |-> ptype, provider |-> s.p])
                       ELSE picks
    /\ fpc' = "selected"
    /\ UNCHANGED << mixins, cooldown_until, now, ptype, tried, reconciler, waits,
                    result, fetches, limits >>
    /\ UNCHANGED bcastVars
    /\ UNCHANGED buildVars
    /\ UNCHANGED mergeVars
    /\ UNCHANGED serviceVars

\* _next line 182 and _wait: nobody is available, sleep until the soonest
\* cooldown is over, then scan again.
NextWaits ==
    /\ fpc = "next"
    /\ ~Scan(providers_typed(ptype)).found
    /\ LET typed == providers_typed(ptype)
           soonest == SetMin({cooldown_until[typed[i]] : i \in 1..Len(typed)})
       IN  \E over \in OverSleep : now' = now + SleepFor(soonest, now) + over
    /\ waits' = waits + 1
    /\ UNCHANGED << scan_i, mixins, cooldown_until, index, fpc, ptype, tried, reconciler,
                    provider, result, fetches, limits, picks >>
    /\ UNCHANGED bcastVars
    /\ UNCHANGED buildVars
    /\ UNCHANGED mergeVars
    /\ UNCHANGED serviceVars

\* _fetch lines 132-134: a provider already tried for this query.
FetchSkipsTried ==
    /\ fpc = "selected"
    /\ Names[provider] \in tried
    /\ MarkUnavailable(provider)
    /\ fpc' = "loop"
    /\ UNCHANGED << scan_i, mixins, index, now, ptype, tried, reconciler, provider, waits,
                    result, fetches, limits, picks >>
    /\ UNCHANGED bcastVars
    /\ UNCHANGED buildVars
    /\ UNCHANGED mergeVars
    /\ UNCHANGED serviceVars

\* _fetch lines 135-140: the provider answers with a frame.
FetchCallAnswers ==
    /\ fpc = "selected"
    /\ Names[provider] \notin tried
    /\ \E df_ \in ProviderFrames(provider) :
          LET rec == ReconcilerAdd(reconciler, df_, Names[provider])
          IN  /\ reconciler' = rec
              /\ IF StopsEarly(rec)
                 THEN /\ result' = [data |-> rec.data, source |-> rec.source]
                      /\ fpc' = "idle"
                 ELSE /\ result' = result
                      /\ fpc' = "loop"
    /\ tried' = TriedAfter(tried, Names[provider])
    /\ UNCHANGED << scan_i, mixins, cooldown_until, index, now, ptype, provider, waits,
                    fetches, limits, picks >>
    /\ UNCHANGED bcastVars
    /\ UNCHANGED buildVars
    /\ UNCHANGED mergeVars
    /\ UNCHANGED serviceVars

\* _fetch lines 141-144: the provider raises APILimitReachedError.
FetchCallLimited ==
    /\ fpc = "selected"
    /\ Names[provider] \notin tried
    /\ limits < MaxLimits
    /\ limits' = limits + 1
    /\ MarkUnavailable(provider)
    /\ fpc' = "loop"
    /\ UNCHANGED << scan_i, mixins, index, now, ptype, tried, reconciler, provider, waits,
                    result, fetches, picks >>
    /\ UNCHANGED bcastVars
    /\ UNCHANGED buildVars
    /\ UNCHANGED mergeVars
    /\ UNCHANGED serviceVars

PoolNext ==
    \/ FetchStart
    \/ FetchLoop
    \/ FetchExhausted
    \/ NextSelects
    \/ NextWaits
    \/ FetchSkipsTried
    \/ FetchCallAnswers
    \/ FetchCallLimited

(***************************************************************************)
(* Part II, broadcast mode: ProviderPool.fetch_stock_listings and          *)
(* ProviderPool.fetch_crypto_market.                                       *)
(***************************************************************************)
MaxBroadcasts == 2  \* broadcast calls made on the pool

\* The capabilities the broadcast functions ask for.
BTypes == {"MixinStockListing", "MixinCryptoMarket"}

\* Pools for the broadcast calls: any provider may list stocks, crypto, both
\* or neither.
BroadcastPools == [Providers -> SUBSET BTypes]

\* A ProviderSource that is in no pool.
Outsider == "financial-model-prep"

\* The except_from arguments: None (the default), or a list of sources, of
\* the pool or not.
ExceptLists ==
    { << >> } \cup { << S >> : S \in SUBSET ({Names[p] : p \in Providers} \cup {Outsider}) }

\* What a listing call returns: no rows, or the provider's table.
BroadcastFrames(p) == { EmptyFrame, [symbol |-> Names[p], type |-> Names[p]] }

\* frames = {}
NoFrames == [n \in {} |-> EmptyFrame]

\* frames |= {provider.name: df}
FramesWith(frames_, name, df_) ==
    [n \in DOMAIN frames_ \cup {name} |-> IF n = name THEN df_ ELSE frames_[n]]

\* A broadcast call is over: it returned, or an exception left it.
BroadcastOver == bpc \in {"idle", "returned", "TypeError", "APILimitReachedError"}

\* A caller calls fetch_stock_listings(except_from) or fetch_crypto_market().
BroadcastStart ==
    /\ BroadcastOver
    /\ broadcasts < MaxBroadcasts
    /\ broadcasts' = broadcasts + 1
    /\ \E t \in BTypes :
          /\ btype' = t
          /\ except_from' \in IF t = "MixinStockListing" THEN ExceptLists ELSE { << {} >> }
    /\ frames' = NoFrames
    /\ providers' = << >>
    /\ called' = << >>
    /\ bpc' = "filter"
    /\ UNCHANGED fetchVars
    /\ UNCHANGED buildVars
    /\ UNCHANGED mergeVars
    /\ UNCHANGED serviceVars

\* Line 95 (line 46 for crypto): the providers of the capability that are
\* not excluded.
BroadcastFilters ==
    /\ bpc = "filter"
    /\ ~(except_from = << >> /\ providers_typed(btype) # << >>)
    /\ providers' = SelectSeq(providers_typed(btype),
                               LAMBDA p : except_from = << >> \/ Names[p] \notin except_from[1])
    /\ bpc' = "loop"
    /\ UNCHANGED << btype, except_from, called, frames, broadcasts >>
    /\ UNCHANGED fetchVars
    /\ UNCHANGED buildVars
    /\ UNCHANGED mergeVars
    /\ UNCHANGED serviceVars

\* Line 95 with except_from=None and a provider to test: "val.name not in
\* None" raises TypeError.
BroadcastTypeError ==
    /\ bpc = "filter"
    /\ except_from = << >>
    /\ providers_typed(btype) # << >>
    /\ bpc' = "TypeError"
    /\ UNCHANGED << btype, except_from, providers, called, frames, broadcasts >>
    /\ UNCHANGED fetchVars
    /\ UNCHANGED buildVars
    /\ UNCHANGED mergeVars
    /\ UNCHANGED serviceVars

\* Lines 96-100 (46-50): the next provider is called and answers.
BroadcastCallAnswers ==
    /\ bpc = "loop"
    /\ providers # << >>
    /\ \E df_ \in BroadcastFrames(Head(providers)) :
          /\ called' = Append(called, [provider |-> Head(providers), df |-> << df_ >>])
          /\ frames' = IF IsEmpty(df_) THEN frames
                        ELSE FramesWith(frames, Names[Head(providers)], df_)
    /\ providers' = Tail(providers)
    /\ UNCHANGED << bpc, btype, except_from, broadcasts >>
    /\ UNCHANGED fetchVars
    /\ UNCHANGED buildVars
    /\ UNCHANGED mergeVars
    /\ UNCHANGED serviceVars

\* Line 98 (48): the provider raises APILimitReachedError; no handler in the
\* function, the exception leaves it.
BroadcastCallLimited ==
    /\ bpc = "loop"
    /\ providers # << >>
    /\ called' = Append(called, [provider |-> Head(providers), df |-> << >>])
    /\ bpc' = "APILimitReachedError"
    /\ UNCHANGED << btype, except_from, providers, frames, broadcasts >>
    /\ UNCHANGED fetchVars
    /\ UNCHANGED buildVars
    /\ UNCHANGED mergeVars
    /\ UNCHANGED serviceVars

\* Line 102 (52): return frames.
BroadcastReturns ==
    /\ bpc = "loop"
    /\ providers = << >>
    /\ bpc' = "returned"
    /\ UNCHANGED << btype, except_from, providers, called, frames, broadcasts >>
    /\ UNCHANGED fetchVars
    /\ UNCHANGED buildVars
    /\ UNCHANGED mergeVars
    /\ UNCHANGED serviceVars

BroadcastNext ==
    \/ BroadcastStart
    \/ BroadcastFilters
    \/ BroadcastTypeError
    \/ BroadcastCallAnswers
    \/ BroadcastCallLimited
    \/ BroadcastReturns

(***************************************************************************)
(* Part III: merge_on_symbols (src/data/processing.py).                    *)
(*                                                                         *)
(* The canonical table has the columns symbol and market_cap, the provider *)
(* data symbol, market_cap and volume, all critical.  "NaN" is a missing   *)
(* value; any other value is named after the table that supplied it.       *)
(***************************************************************************)
MaxMergeRows == 2   \* rows of df_canonical and of df_data

\* The symbols, in the order sort_values puts them (missing values last).
SymbolOrder == << "A", "B", "NaN" >>

Symbols == {SymbolOrder[i] : i \in 1..Len(SymbolOrder)}

CanonicalRows == [symbol : Symbols, market_cap : {"NaN", "canonical"}]

DataRows == [symbol : Symbols, market_cap : {"NaN", "data"}, volume : {"NaN", "data"}]

TablesUpTo(rows, n) == UNION { [1..k -> rows] : k \in 0..n }

\* _merge_combine_first(left, right, how="left"): pd.merge on the symbol
\* (every left row once per right row of its symbol, missing symbols match
\* each other; a left row without a match keeps missing right columns),
\* then combine_first on the shared column: the left value unless missing.
RECURSIVE merge_combine_first(_, _)
merge_combine_first(left, right) ==
    IF Len(left) = 0 THEN << >>
    ELSE LET l == Head(left)
             matches == SelectSeq(right, LAMBDA r : r.symbol = l.symbol)
             joined ==
                 IF Len(matches) = 0
                 THEN << [symbol |-> l.symbol, market_cap |-> l.market_cap,
                          volume |-> "NaN"] >>
                 ELSE [k \in 1..Len(matches) |->
                          [symbol |-> l.symbol,
                           market_cap |-> IF l.market_cap # "NaN" THEN l.market_cap
                                          ELSE matches[k].market_cap,
                           volume |-> matches[k].volume]]
         IN  joined \o merge_combine_first(Tail(left), right)

\* df.sort_values(COL_SYMBOL).  The order of rows of one symbol is left to
\* the sort; no outcome depends on it: the duplicate check does not look at
\* the order and a returned table has one row per symbol.
RECURSIVE SortFrom(_, _)
SortFrom(rows, k) ==
    IF k > Len(SymbolOrder) THEN << >>
    ELSE SelectSeq(rows, LAMBDA r : r.symbol = SymbolOrder[k]) \o SortFrom(rows, k + 1)

sort_by_symbol(rows) == SortFrom(rows, 1)

\* _drop_critical_isna: rows with a missing value in a critical column go.
drop_critical_isna(rows) ==
    SelectSeq(rows, LAMBDA r : r.symbol # "NaN" /\ r.market_cap # "NaN" /\ r.volume # "NaN")

\* (mutant) the duplicate check never fires.
HasDupes_Never(rows) == FALSE

\* df[COL_SYMBOL].duplicated().sum() > 0
HasDupes(rows) ==
    \E i \in 1..Len(rows) : \E j \in (i + 1)..Len(rows) : rows[i].symbol = rows[j].symbol

\* merge_on_symbols lines 37-40.
Enriched(canonical, data) ==
    drop_critical_isna(sort_by_symbol(merge_combine_first(canonical, data)))

MergeInit ==
    /\ df_canonical \in TablesUpTo(CanonicalRows, MaxMergeRows)
    /\ df_data \in TablesUpTo(DataRows, MaxMergeRows)
    /\ mpc = "merge_on_symbols"
    /\ df_result = << >>

\* merge_on_symbols returns (line 52).
MergeReturns ==
    /\ mpc = "merge_on_symbols"
    /\ ~HasDupes(Enriched(df_canonical, df_data))
    /\ df_result' = Enriched(df_canonical, df_data)
    /\ mpc' = "returned"
    /\ UNCHANGED << df_canonical, df_data >>
    /\ UNCHANGED << buildVars, poolVars >>
    /\ UNCHANGED serviceVars

\* merge_on_symbols raises RuntimeError (lines 42-45).
MergeRaises ==
    /\ mpc = "merge_on_symbols"
    /\ HasDupes(Enriched(df_canonical, df_data))
    /\ mpc' = "RuntimeError"
    /\ UNCHANGED << df_canonical, df_data, df_result >>
    /\ UNCHANGED << buildVars, poolVars >>
    /\ UNCHANGED serviceVars

MergeNext ==
    \/ MergeReturns
    \/ MergeRaises

(***************************************************************************)
(* Specifications.                                                         *)
(***************************************************************************)
(***************************************************************************)
(* Part IV: Reconciler (src/data/reconciler.py) driven by any sequence of  *)
(* add calls, merge_stock_listings (src/data/processing.py) and get_ohlcv  *)
(* (src/services/fetcher.py).                                              *)
(***************************************************************************)
MaxAdds == 3

\* No Reconciler driven on its own, no listing merge, no get_ohlcv call.
ServiceParked ==
    /\ adds = << >>
    /\ listings = << >>
    /\ lpc = "idle"
    /\ df_accum = << >>
    /\ loaded = {}
    /\ answers = {}
    /\ store = {}
    /\ opc = "idle"
    /\ ohlcv = {}

\* Reconciler.add(data, source) with a frame that has a row.
ReconcilerAddsFrame ==
    /\ Len(adds) < MaxAdds
    /\ \E p \in Providers : \E df_ \in ProviderFrames(p) \ {EmptyFrame} :
          /\ reconciler' = ReconcilerAdd(reconciler, df_, Names[p])
          /\ adds' = Append(adds, [data |-> df_, source |-> Names[p]])
    /\ UNCHANGED << mixins, cooldown_until, index, now, fpc, ptype, tried, provider,
                    waits, scan_i, result, fetches, limits, picks >>
    /\ UNCHANGED << listings, lpc, df_accum, loaded, answers, store, opc, ohlcv >>
    /\ UNCHANGED << bcastVars, buildVars, mergeVars >>

\* Reconciler.add(data, source) with an empty frame (lines 61-63).
ReconcilerAddsEmpty ==
    /\ Len(adds) < MaxAdds
    /\ \E p \in Providers :
          /\ reconciler' = ReconcilerAdd(reconciler, EmptyFrame, Names[p])
          /\ adds' = Append(adds, [data |-> EmptyFrame, source |-> Names[p]])
    /\ UNCHANGED << mixins, cooldown_until, index, now, fpc, ptype, tried, provider,
                    waits, scan_i, result, fetches, limits, picks >>
    /\ UNCHANGED << listings, lpc, df_accum, loaded, answers, store, opc, ohlcv >>
    /\ UNCHANGED << bcastVars, buildVars, mergeVars >>

ReconcilerNext ==
    \/ ReconcilerAddsFrame
    \/ ReconcilerAddsEmpty

(* merge_stock_listings *)
MaxListingRows == 2

\* The providers a listing can come from (ProviderSource).
ListingSources == {"finnhub", "polygon", "financial-model-prep"}

\* merge_stock_listings line 76: precedence
precedence == << "finnhub", "polygon" >>

\* A projected listing row: its symbol and one more column of the view, NaN
\* or a value named after the provider.
ListingRows(source) == [symbol : {"A", "B"}, type : {"NaN", source}]

\* A provider's listing has one row per symbol.
ListingTables(source) ==
    {t \in TablesUpTo(ListingRows(source), MaxListingRows) :
        \A i \in 1..Len(t) : \A j \in 1..Len(t) : t[i].symbol = t[j].symbol => i = j}

\* The dictionaries of listings: a table for each provider of some set.
ListingFrames ==
    UNION {[S -> UNION {ListingTables(p) : p \in S}] : S \in SUBSET ListingSources}

\* _merge_combine_first(left, right, how) on listing rows: pd.merge on the
\* symbol, then combine_first on the shared column.  how = "left" keeps every
\* left row, how = "inner" only the rows with a match.
RECURSIVE listing_combine_first(_, _, _)
listing_combine_first(left, right, how) ==
    IF Len(left) = 0 THEN << >>
    ELSE LET l == Head(left)
             matches == SelectSeq(right, LAMBDA r : r.symbol = l.symbol)
             joined ==
                 IF Len(matches) = 0
                 THEN IF how = "left" THEN << l >> ELSE << >>
                 ELSE [k \in 1..Len(matches) |->
                          [symbol |-> l.symbol,
                           type |-> IF l.type # "NaN" THEN l.type ELSE matches[k].type]]
         IN  joined \o listing_combine_first(Tail(left), right, how)

\* merge_stock_listings line 78: order = [p for p in precedence if p in frames]
OrderOf(frames_) == SelectSeq(precedence, LAMBDA p : p \in DOMAIN frames_)

\* merge_stock_listings lines 80-84: the fold over order[1:].
RECURSIVE Accumulate(_, _, _)
Accumulate(accum, order, frames_) ==
    IF Len(order) = 0 THEN accum
    ELSE Accumulate(listing_combine_first(accum, frames_[Head(order)], "left"),
                    Tail(order), frames_)

ListingsInit ==
    /\ listings \in {f \in ListingFrames : \A p \in DOMAIN f : f[p] \in ListingTables(p)}
    /\ lpc = "call"
    /\ df_accum = << >>

\* merge_stock_listings with a frame of a provider of the precedence list.
ListingsMerge ==
    /\ lpc = "call"
    /\ Len(OrderOf(listings)) > 0
    /\ LET order == OrderOf(listings)
       IN  df_accum' = Accumulate(listings[Head(order)], Tail(order), listings)
    /\ lpc' = "returned"
    /\ UNCHANGED << adds, listings, loaded, answers, store, opc, ohlcv >>
    /\ UNCHANGED << buildVars, poolVars, mergeVars >>

\* merge_stock_listings lines 78-79: order is empty and order[0] raises.
ListingsRaises ==
    /\ lpc = "call"
    /\ Len(OrderOf(listings)) = 0
    /\ lpc' = "IndexError"
    /\ UNCHANGED << adds, listings, df_accum, loaded, answers, store, opc, ohlcv >>
    /\ UNCHANGED << buildVars, poolVars, mergeVars >>

ListingsNext ==
    \/ ListingsMerge
    \/ ListingsRaises

(* get_ohlcv *)
\* The trading days asked for, _get_last_trading(days=30), as 1..MaxDays.
MaxDays == 4

exchange_dates == 1..MaxDays

\* A row of OHLCV data: its day and where it came from.
RowsOfDays(days, origin) == {[timestamp |-> d, origin |-> origin] : d \in days}

\* get_ohlcv lines 54-58: the days without rows in what was loaded.
Missing(loaded_) == exchange_dates \ loaded_

OhlcvInit ==
    /\ loaded \in SUBSET exchange_dates
    /\ store = loaded
    /\ answers \in SUBSET exchange_dates
    /\ opc = "call"
    /\ ohlcv = {}

\* get_ohlcv, nothing missing: what was loaded is returned.
OhlcvAllStored ==
    /\ opc = "call"
    /\ Missing(loaded) = {}
    /\ ohlcv' = RowsOfDays(loaded, "store")
    /\ opc' = "returned"
    /\ UNCHANGED << adds, listings, lpc, df_accum, loaded, answers, store >>
    /\ UNCHANGED << buildVars, poolVars, mergeVars >>

\* get_ohlcv lines 60-66: every missing day is fetched, df is set to the
\* concatenation of the fetched frames, which is saved and returned.
OhlcvFetches ==
    /\ opc = "call"
    /\ Missing(loaded) # {}
    /\ Missing(loaded) \cap answers # {}
    /\ ohlcv' = RowsOfDays(Missing(loaded) \cap answers, "provider")
    /\ store' = store \cup (Missing(loaded) \cap answers)
    /\ opc' = "returned"
    /\ UNCHANGED << adds, listings, lpc, df_accum, loaded, answers >>
    /\ UNCHANGED << buildVars, poolVars, mergeVars >>

\* get_ohlcv lines 65-66: every fetched frame is empty, their concatenation has
\* no timestamp column and save_ohlcv raises on df[COL_TIMESTAMP].
OhlcvRaises ==
    /\ opc = "call"
    /\ Missing(loaded) # {}
    /\ Missing(loaded) \cap answers = {}
    /\ opc' = "KeyError"
    /\ UNCHANGED << adds, listings, lpc, df_accum, loaded, answers, store, ohlcv >>
    /\ UNCHANGED << buildVars, poolVars, mergeVars >>

OhlcvNext ==
    \/ OhlcvAllStored
    \/ OhlcvFetches
    \/ OhlcvRaises

vars == << buildVars, poolVars, mergeVars, serviceVars >>

\* No merge_on_symbols call.
MergeParked ==
    /\ df_canonical = << >>
    /\ df_data = << >>
    /\ mpc = "idle"
    /\ df_result = << >>

\* No broadcast call yet.
BroadcastParked ==
    /\ bpc = "idle"
    /\ btype = "None"
    /\ except_from = << >>
    /\ providers = << >>
    /\ called = << >>
    /\ frames = NoFrames
    /\ broadcasts = 0

\* The pool before any call, while an index is built.
PoolParked ==
    /\ mixins = << PTypes, PTypes, PTypes >>
    /\ cooldown_until = [p \in Providers |-> 0 - cooldown_seconds]
    /\ index = 0
    /\ now = 0
    /\ fpc = "idle"
    /\ ptype = "None"
    /\ tried = {}
    /\ reconciler = NewReconciler
    /\ provider = 0
    /\ waits = 0
    /\ scan_i = 0
    /\ result = NoResult
    /\ fetches = 0
    /\ limits = 0
    /\ picks = << >>
    /\ BroadcastParked

\* No build while the pool is exercised.
BuildParked ==
    /\ dfs = << >>
    /\ sort_by = "market_cap"
    /\ top = 0
    /\ min_weight = [m |-> 0, d |-> 0]
    /\ pc = "idle"
    /\ df_merged = << >>
    /\ df = << >>
    /\ df_index = << >>
    /\ units_to_add = << >>

\* One index build: refine_data, then add_weightings.
Init == BuildInit /\ PoolParked /\ MergeParked /\ ServiceParked

Next == BuildNext

Spec == Init /\ [][Next]_vars

\* The provider pool serving _fetch calls.
PoolSpecInit == PoolInit /\ BroadcastParked /\ BuildParked /\ MergeParked /\ ServiceParked

SpecPool == PoolSpecInit /\ [][PoolNext]_vars

\* The _fetch calls of SpecPool under fairness: the code runs on (weak
\* fairness of its steps), the caller makes no promise to call again, and a
\* provider that is asked again and again eventually answers without a
\* rate-limit signal (strong fairness of the answer).
PoolRuns ==
    \/ FetchLoop
    \/ FetchExhausted
    \/ NextSelects
    \/ NextWaits
    \/ FetchSkipsTried

SpecPoolLive ==
    /\ PoolSpecInit
    /\ [][PoolNext]_vars
    /\ WF_vars(PoolRuns)
    /\ SF_vars(FetchCallAnswers)

\* The pool serving broadcast calls; no _fetch call is made meanwhile.
BroadcastInit ==
    /\ mixins \in BroadcastPools
    /\ cooldown_until = [p \in Providers |-> 0 - cooldown_seconds]
    /\ index = 0
    /\ now = 0
    /\ fpc = "idle"
    /\ ptype = "None"
    /\ tried = {}
    /\ reconciler = NewReconciler
    /\ provider = 0
    /\ waits = 0
    /\ scan_i = 0
    /\ result = NoResult
    /\ fetches = 0
    /\ limits = 0
    /\ picks = << >>
    /\ BroadcastParked
    /\ BuildParked
    /\ MergeParked
    /\ ServiceParked

SpecBroadcast == BroadcastInit /\ [][BroadcastNext]_vars

\* One merge_on_symbols call; no build, no pool call.
MergeSpecInit == MergeInit /\ PoolParked /\ BuildParked /\ ServiceParked

SpecMerge == MergeSpecInit /\ [][MergeNext]_vars

\* One Reconciler given any add calls; nothing else runs.
ReconcilerSpecInit ==
    /\ PoolParked /\ BuildParked /\ MergeParked /\ ServiceParked

SpecReconciler == ReconcilerSpecInit /\ [][ReconcilerNext]_vars

\* One merge_stock_listings call.
ListingsSpecInit ==
    /\ ListingsInit
    /\ adds = << >> /\ loaded = {} /\ answers = {} /\ store = {}
    /\ opc = "idle" /\ ohlcv = {}
    /\ PoolParked /\ BuildParked /\ MergeParked

SpecListings == ListingsSpecInit /\ [][ListingsNext]_vars

\* One get_ohlcv call.
OhlcvSpecInit ==
    /\ OhlcvInit
    /\ adds = << >> /\ listings = << >> /\ lpc = "idle" /\ df_accum = << >>
    /\ PoolParked /\ BuildParked /\ MergeParked

SpecOhlcv == OhlcvSpecInit /\ [][OhlcvNext]_vars

(***************************************************************************)
(* Properties of the index build.                                          *)
(***************************************************************************)
Returned == pc = "returned"

P_ == Precision(min_weight)

FinalUnits == [i \in 1..Len(df_index) |-> df_index[i].weighted \div 10]

\* min_weight <= 100 / N, N the number of rows given to add_weightings.
MinWeightFeasible == min_weight.m * Len(df) <= 100 * Pow10(min_weight.d)

\* C1: for a non-empty table of N positive market caps and a minimum weight
\* <= 100/N, the returned weights are whole units of 10^-(P-1) and total
\* exactly 100 * 10^(P-1) units.
C1_SumIsExactly100 ==
    (Returned /\ Len(df) >= 1 /\ MinWeightFeasible) =>
        /\ \A i \in 1..Len(df_index) : df_index[i].weighted % 10 = 0
        /\ SumSeq(FinalUnits) = 100 * Pow10(P_ - 1)

C1_Witness ==
    /\ Returned /\ MinWeightFeasible
    /\ Len(df_index) >= 2
    /\ units_to_add # << >> /\ units_to_add[1] > 0

\* C2: no returned weight is below the configured minimum weight.
C2_NoWeightBelowMinimum ==
    Returned =>
        \A i \in 1..Len(df_index) : df_index[i].weighted >= MinWeightAt(min_weight, P_)

RemoveAt(rows, k) == SubSeq(rows, 1, k - 1) \o SubSeq(rows, k + 1, Len(rows))

Keys(rows) == [i \in 1..Len(rows) |-> << rows[i].symbol, rows[i].market_cap >>]

\* C3: every iteration of the pruning loop removes exactly one row, a row
\* whose weight is the minimum of the current table, and the table never
\* has more rows than the input.
C3_PruneDropsMinimum ==
    /\ [][ (pc = "pruning" /\ pc' = "pruning") =>
              \E k \in 1..Len(df_index) :
                  /\ Keys(df_index') = Keys(RemoveAt(df_index, k))
                  /\ \A j \in 1..Len(df_index) :
                        df_index[k].weighted <= df_index[j].weighted ]_vars
    /\ [](Len(df_index) <= Len(df))

C3_Witness ==
    /\ Returned
    /\ Len(df) - Len(df_index) >= 2
    /\ Len(df_index) >= 1

\* C4 (as claimed): the weight _fix_rounding writes is never below the
\* P-decimal weight the row had when the pruning loop ended.
C4_NeverBelowRoundedWeight ==
    [][ (pc = "pruning" /\ pc' = "returned") =>
            \A i \in 1..Len(df_index) :
                df_index'[i].weighted >= df_index[i].weighted ]_vars

\* C4 (amended): the weight _fix_rounding writes is never below the row's
\* floored base units, and is below the P-decimal weight the row had when
\* the pruning loop ended by at most one unit of 10^-(P-1).
C4_NeverBelowBaseUnits ==
    [][ (pc = "pruning" /\ pc' = "returned") =>
            \A i \in 1..Len(df_index) :
                /\ df_index'[i].weighted * SumSeq(MCs(df_index)) + 10 * SumSeq(MCs(df_index))
                      > df_index[i].market_cap * 100 * Pow10(P_)
                /\ df_index[i].weighted - df_index'[i].weighted <= 10 ]_vars

C4_Witness ==
    /\ Returned
    /\ \E i \in 1..Len(df_index) :
          df_index[i].weighted < RoundedWeights(df_index, P_)[i]

\* C5: each final unit count is the floored base units plus 0 or 1, exactly
\* units_to_add rows got the +1, and no row without it has a larger
\* remainder than a row with it.
C5_OneUnitPerEntity ==
    Returned =>
        LET base == BaseUnits(df_index, P_)
            rem == Remainders(df_index, P_)
            bumped == {i \in 1..Len(df_index) : FinalUnits[i] = base[i] + 1}
        IN  /\ \A i \in 1..Len(df_index) : FinalUnits[i] \in {base[i], base[i] + 1}
            /\ Cardinality(bumped) = units_to_add[1]
            /\ \A i \in bumped : \A j \in (1..Len(df_index)) \ bumped : rem[i] >= rem[j]

\* C5 on the non-empty tables, where it holds.
C5_OneUnitPerEntity_NonEmpty == Len(df_index) > 0 => C5_OneUnitPerEntity

C7_EmptyIsFlagged == Returned => Len(df_index) > 0

\* Rows of the merged input that pass the market-cap and volume filters.
Eligible ==
    LET merged == merge_symbols(dfs, symbol_merge)
    IN  {i \in 1..Len(merged) :
            merged[i].market_cap > 0 /\ merged[i].volume > volume_limit_min}

\* C8: refine_data raises ValueError whenever fewer than top rows pass the
\* filters; what it returns has exactly top rows, in descending market cap,
\* each with a positive market cap and a volume above the minimum.
C8_RefineTopOrRaise ==
    /\ (pc # "refine_data" /\ Cardinality(Eligible) < top) => pc = "ValueError"
    /\ pc \in {"add_weightings", "pruning", "returned"} =>
          /\ Len(df) = top
          /\ \A i \in 1..Len(df) :
                /\ df[i].market_cap > 0
                /\ df[i].volume > volume_limit_min
                /\ i > 1 => df[i - 1].market_cap >= df[i].market_cap

C8_Witness ==
    /\ pc = "add_weightings"
    /\ Len(df) >= 2
    /\ Len(dfs) > Len(df)
    /\ Cardinality(Eligible) < Len(merge_symbols(dfs, symbol_merge))

\* C21: on the caps 500, 300, 150, 50 with minimum weight 10 the row of cap
\* 50 and only it is dropped and the weights returned are 52.6, 31.6 and
\* 15.8 (5260, 3160, 1580 counts of 10^-2): each >= 10, 100.0 together.
C21_WorkedExample ==
    (Returned /\ dfs = LiquidTable(ExampleCaps) /\ top = 4
              /\ min_weight = [m |-> 10, d |-> 0]) =>
        /\ MCs(df_index) = << 500, 300, 150 >>
        /\ [i \in 1..Len(df_index) |-> df_index[i].weighted] = << 5260, 3160, 1580 >>
        /\ \A i \in 1..Len(df_index) : df_index[i].weighted >= MinWeightAt(min_weight, P_)
        /\ SumSeq([i \in 1..Len(df_index) |-> df_index[i].weighted]) = 100 * Pow10(P_)

C21_Witness ==
    /\ Returned
    /\ dfs = LiquidTable(ExampleCaps)
    /\ Len(df_index) = 3

\* The rows _fix_rounding bumped.
Bumped == {i \in 1..Len(df_index) : FinalUnits[i] = BaseUnits(df_index, P_)[i] + 1}

C23_DeficitBelowN ==
    (Returned /\ Len(df_index) > 0) => units_to_add[1] \in 0..(Len(df_index) - 1)

\* C23 (amended): on a non-empty table of N rows units_to_add is within
\* 0..N (N when the double of every row's exact units floors low), exactly
\* that many rows are bumped, none when it is 0, and the call returns.
C23_DeficitAtMostN ==
    (pc \in {"pruning", "returned"} /\ Len(df_index) > 0) =>
        LET deficit == 100 * Scale(P_) - SumSeq(BaseUnits(df_index, P_))
        IN  /\ deficit \in 0..Len(df_index)
            /\ Returned =>
                  /\ units_to_add = << deficit >>
                  /\ Cardinality(Bumped) = deficit
                  /\ \A i \in 1..Len(df_index) :
                        FinalUnits[i] \in {BaseUnits(df_index, P_)[i],
                                           BaseUnits(df_index, P_)[i] + 1}

C23_Witness ==
    /\ Returned
    /\ Len(df_index) >= 2
    /\ units_to_add = << Len(df_index) >>

\* C30: add_weightings' table is always the first rows of its input, in
\* input order and with their market caps; the input keeps its rows and
\* gets no weight column.
C30_PrefixOfInput ==
    /\ [](pc \in {"pruning", "returned"} =>
            /\ Len(df_index) <= Len(df)
            /\ \A i \in 1..Len(df_index) :
                  /\ df_index[i].symbol = df[i].symbol
                  /\ df_index[i].market_cap = df[i].market_cap
                  /\ df_index[i].volume = df[i].volume
            /\ \A i \in 1..Len(df) : DOMAIN df[i] = {"symbol", "market_cap", "volume"})
    /\ [][(pc \in {"add_weightings", "pruning"}) => (df' = df)]_vars

C30_Witness ==
    /\ Returned
    /\ Len(df_index) >= 2
    /\ Len(df_index) < Len(df)
    /\ df_index[1].market_cap = df_index[2].market_cap

(***************************************************************************)
(* Properties of the provider pool.                                        *)
(***************************************************************************)
\* The provider of capability t that follows prev in the pool's list,
\* cyclically (prev = 0: from the head of the list).
NextInListOrder(prev, t) ==
    LET capable == {q \in Providers : t \in mixins[q]}
        after == {q \in capable : q > prev}
    IN  IF after # {} THEN SetMin(after) ELSE SetMin(capable)

\* C9: while every provider is available (none was ever cooled), successive
\* selections by _next, for whichever capability, go through the providers
\* in list order, and no provider is selected again before every other
\* provider of the capability asked for has been selected.
C9_RoundRobinInListOrder ==
    /\ \A i \in 1..Len(picks) :
          picks[i].provider =
              NextInListOrder(IF i = 1 THEN 0 ELSE picks[i - 1].provider, picks[i].ptype)
    /\ \A i \in 1..Len(picks) : \A j \in (i + 1)..Len(picks) :
          picks[i].provider = picks[j].provider =>
              \A q \in Providers :
                  (q # picks[j].provider /\ picks[j].ptype \in mixins[q]) =>
                      \E k \in (i + 1)..(j - 1) : picks[k].provider = q

\* C9 for the selections of one capability alone, where it holds.
C9_OneCapability ==
    (\A i \in 1..Len(picks) : picks[i].ptype = picks[1].ptype) =>
        C9_RoundRobinInListOrder

\* Every provider of the capability asked for is on cooldown.
AllCooling ==
    \A p \in Providers : ptype \in mixins[p] => ~is_available(cooldown_until[p], now)

SoonestCooldown == SetMin({cooldown_until[p] : p \in {q \in Providers : ptype \in mixins[q]}})

\* C10: when _next finds every provider on cooldown, the call sleeps at
\* least until the soonest cooldown expiry, no provider is called meanwhile,
\* a provider is available when it wakes, and the scan that follows selects.
C10_BlocksUntilSoonestExpiry ==
    /\ [][ (fpc = "next" /\ AllCooling) =>
              /\ fpc' = "next"
              /\ now' - now >= SoonestCooldown - now
              /\ tried' = tried /\ limits' = limits /\ reconciler' = reconciler
              /\ cooldown_until' = cooldown_until
              /\ \E p \in Providers :
                    ptype \in mixins[p] /\ is_available(cooldown_until[p], now') ]_vars
    /\ [][ (fpc = "next" /\ waits >= 1) => (fpc' = "selected" /\ waits' = waits) ]_vars

C10_Witness ==
    /\ fpc = "selected"
    /\ waits = 1
    /\ now > cooldown_seconds

\* C24: a selection by _next returns the first provider, scanning the
\* providers of the capability cyclically from the cursor, whose cooldown
\* has expired, and leaves the cursor right after it; the provider it
\* returned is available.
C24_FirstAvailableFromCursor ==
    /\ [][ (fpc = "next" /\ fpc' = "selected") =>
              LET typed == providers_typed(ptype)
                  n == Len(typed)
              IN  /\ scan_i' \in 0..(n - 1)
                  /\ provider' = typed[((index + scan_i') % n) + 1]
                  /\ \A j \in 0..(scan_i' - 1) :
                        ~is_available(cooldown_until[typed[((index + j) % n) + 1]], now)
                  /\ index' = (index + scan_i' + 1) % n ]_vars
    /\ [](fpc = "selected" =>
            /\ ptype \in mixins[provider]
            /\ is_available(cooldown_until[provider], now))

C24_Witness ==
    /\ fpc = "selected"
    /\ scan_i >= 1
    /\ Len(providers_typed(ptype)) = 3
    /\ index = 0

\* C25: _fetch returns as soon as the reconciler is ready, with the
\* reconciled record and its source; no provider is called, tried or cooled
\* for that query afterwards.
C25_ReturnsWhenReady ==
    /\ [](reconciler.is_ready =>
            /\ fpc = "idle"
            /\ result = [data |-> reconciler.data, source |-> reconciler.source])
    /\ [][ (reconciler.is_ready /\ fetches' = fetches) =>
              /\ tried' = tried
              /\ reconciler' = reconciler
              /\ cooldown_until' = cooldown_until
              /\ provider' = provider ]_vars

C25_Witness ==
    /\ fpc = "idle"
    /\ reconciler.is_ready
    /\ Cardinality(tried) = 2
    /\ \E p \in Providers : ptype \in mixins[p] /\ Names[p] \notin tried

(***************************************************************************)
(* Properties of rate-limit handling and exhaustion.                       *)
(***************************************************************************)
\* C11: a rate-limit signal (APILimitReachedError) raised by a provider call
\* never leaves a call of the pool, be it _fetch or a broadcast function.
C11_RateLimitNeverPropagates ==
    /\ fpc # "APILimitReachedError"
    /\ bpc # "APILimitReachedError"

\* C11 for _fetch alone, where it holds: the rate-limited provider is put on
\* cooldown for cooldown_seconds, nothing else changes and the loop goes on.
C11_FetchCoolsAndRetries ==
    [][ limits' = limits + 1 =>
            /\ fpc' = "loop"
            /\ cooldown_until' =
                  [cooldown_until EXCEPT ![provider] = now + cooldown_seconds]
            /\ tried' = tried /\ reconciler' = reconciler /\ result' = result ]_vars

\* C12: during a _fetch call, a provider that answered the query with no
\* results (it is in tried and the reconciler holds nothing) keeps its
\* cooldown_until.
C12_NoResultsNoCooldown ==
    [][ (fetches' = fetches /\ IsEmpty(reconciler.data)) =>
            \A p \in Providers :
                Names[p] \in tried => cooldown_until'[p] = cooldown_until[p] ]_vars

\* C13: a _fetch call that returned the empty frame with no source has
\* tried every provider of the capability it asked for.
C13_EmptyOnlyWhenAllTried ==
    (fpc = "idle" /\ fetches > 0 /\ result = NoResult) =>
        \A p \in Providers : ptype \in mixins[p] => Names[p] \in tried

C13_Witness ==
    /\ fpc = "idle" /\ fetches > 0 /\ result = NoResult
    /\ Cardinality(tried) >= 2
    /\ limits > 0

\* C14: under SpecPoolLive every _fetch call that was started ends, with a
\* reconciled frame or with the empty result.
C14_FetchTerminates == (fpc # "idle") ~> (fpc = "idle")

C14_Witness ==
    /\ fpc = "idle" /\ fetches > 0
    /\ limits > 0
    /\ waits = 1
    /\ tried # {}

\* C28: a _fetch call that ends with a reconciler that never became ready
\* returns the empty frame and no source, whatever the reconciler gathered.
C28_NotReadyReturnsEmpty ==
    (fpc = "idle" /\ fetches > 0 /\ ~reconciler.is_ready) =>
        /\ result = NoResult
        /\ \A p \in Providers : ptype \in mixins[p] => Names[p] \in tried

C28_Witness ==
    /\ fpc = "idle"
    /\ fetches > 0
    /\ result = NoResult
    /\ ~IsEmpty(reconciler.data)
    /\ \E c \in CRITICAL_COLUMNS : reconciler.col_ready[c]

(***************************************************************************)
(* Properties of the Reconciler, as _fetch drives it.                      *)
(***************************************************************************)
\* A value of the merged record is present and valid.
Valid(c, v) == v # "NaN" /\ ~(c = "market_cap" /\ v = "0")

SameCall == fetches' = fetches

C17_SourceIsBaseProvider ==
    /\ [](reconciler.source = "None" <=> IsEmpty(reconciler.data))
    /\ [][ SameCall =>
              /\ reconciler.source # "None" => reconciler'.source = reconciler.source
              /\ (reconciler.source = "None" /\ reconciler'.source # "None") =>
                    /\ reconciler'.source = Names[provider]
                    /\ reconciler'.data \in ProviderFrames(provider) \ {EmptyFrame} ]_vars

C17_Witness ==
    /\ fpc = "idle"
    /\ result.source # "None"
    /\ \E c \in DOMAIN result.data :
          result.data[c] \notin {"NaN", "0", result.source}

(***************************************************************************)
(* Properties of broadcast mode.                                           *)
(***************************************************************************)
\* The providers a broadcast call has to attempt: those of the capability
\* that except_from does not name, in list order.
Attemptable ==
    LET excluded == IF except_from = << >> THEN {} ELSE except_from[1]
    IN  SelectSeq([p \in Providers |-> p],
                  LAMBDA p : btype \in mixins[p] /\ Names[p] \notin excluded)

\* The attempts made match the providers to attempt, once each, and frames
\* holds exactly the non-empty answers, each under its own provider.
AttemptedAll ==
    /\ [i \in 1..Len(called) |-> called[i].provider] = Attemptable
    /\ DOMAIN frames =
          {Names[called[i].provider] : i \in {j \in 1..Len(called) :
              called[j].df # << >> /\ ~IsEmpty(called[j].df[1])}}
    /\ \A i \in 1..Len(called) :
          (called[i].df # << >> /\ ~IsEmpty(called[i].df[1])) =>
              frames[Names[called[i].provider]] = called[i].df[1]

\* C20: a broadcast call that is over has returned a map, after attempting
\* every provider of the capability that is not excluded, once each; the
\* map holds exactly the non-empty results (none: the empty map).
C20_BroadcastAttemptsAll ==
    (bpc # "idle" /\ BroadcastOver) => (bpc = "returned" /\ AttemptedAll)

\* C20 for the calls that return, where it holds.
C20_WhenReturned == bpc = "returned" => AttemptedAll

(***************************************************************************)
(* Properties of the symbol merges.                                        *)
(***************************************************************************)
\* The rows the join makes for symbol s that survive the drop of rows with
\* a missing critical value: one per pair of a canonical row and a data row
\* of that symbol whose combined market cap and volume are present.
SurvivingPairs(s) ==
    {pr \in (1..Len(df_canonical)) \X (1..Len(df_data)) :
        /\ df_canonical[pr[1]].symbol = s
        /\ df_data[pr[2]].symbol = s
        /\ df_canonical[pr[1]].market_cap # "NaN" \/ df_data[pr[2]].market_cap # "NaN"
        /\ df_data[pr[2]].volume # "NaN"}

MergeOver == mpc \in {"returned", "RuntimeError"}

RowsOf(s) == {i \in 1..Len(dfs) : dfs[i].symbol = s}

\* The input has one row of the rule's merge symbol and one of its into
\* symbol.
BothSymbols ==
    /\ Cardinality(RowsOf(symbol_merge[1].merge)) = 1
    /\ Cardinality(RowsOf(symbol_merge[1].into)) = 1

\* C19: with BRK.A and BRK.B both in the working set, _merge_symbols adds
\* BRK.A's market cap to the BRK.B row and removes the BRK.A row; every other
\* row is unchanged and in place, so the total market cap is preserved.
C19_AliasMergeSumsAndRemoves ==
    (pc # "refine_data" /\ BothSymbols) =>
        LET m == CHOOSE i \in RowsOf(symbol_merge[1].merge) : TRUE
            n == CHOOSE i \in RowsOf(symbol_merge[1].into) : TRUE
            summed == [dfs EXCEPT ![n].market_cap = @ + dfs[m].market_cap]
        IN  /\ df_merged = RemoveAt(summed, m)
            /\ \A i \in 1..Len(df_merged) : df_merged[i].symbol # symbol_merge[1].merge
            /\ SumSeq(MCs(df_merged)) = SumSeq(MCs(dfs))

C19_Witness ==
    /\ pc # "refine_data" /\ BothSymbols
    /\ Len(dfs) = 3
    /\ \A i \in 1..Len(dfs) : dfs[i].market_cap > 0

(***************************************************************************)
(* Properties of the Reconciler under any sequence of add calls.           *)
(***************************************************************************)
\* C29: over any sequence of add calls a critical field once ready stays
\* ready and is_ready once true stays true; an add with an empty record
\* leaves data, source, per-field readiness and is_ready as they were.
C29_ReadinessMonotone ==
    /\ [][ /\ \A c \in CRITICAL_COLUMNS :
                reconciler.col_ready[c] => reconciler'.col_ready[c]
           /\ reconciler.is_ready => reconciler'.is_ready ]_vars
    /\ [][ (Len(adds') = Len(adds) + 1 /\ IsEmpty(adds'[Len(adds')].data)) =>
              reconciler' = reconciler ]_vars

C29_Witness ==
    /\ Len(adds) = 3
    /\ ~ReconcilerAdd(NewReconciler, adds[1].data, adds[1].source).is_ready
    /\ \E c \in CRITICAL_COLUMNS :
          ReconcilerAdd(NewReconciler, adds[1].data, adds[1].source).col_ready[c]
    /\ IsEmpty(adds[2].data)
    /\ ~IsEmpty(adds[3].data)
    /\ adds[3].source # adds[1].source
    /\ reconciler.is_ready

(***************************************************************************)
(* Properties of merge_stock_listings and get_ohlcv.                       *)
(***************************************************************************)
SymbolsOf(table) == {table[i].symbol : i \in 1..Len(table)}

\* C26: merge_stock_listings keeps only the symbols found in every source it
\* merges: a symbol of the highest-precedence listing that another listing
\* lacks is not in the result.
C26_OnlySymbolsInAllSources ==
    lpc = "returned" =>
        \A sym \in SymbolsOf(df_accum) :
            \A i \in 1..Len(OrderOf(listings)) :
                sym \in SymbolsOf(listings[OrderOf(listings)[i]])

\* What merge_stock_listings keeps: the symbols of the highest-precedence
\* listing, all of them.
C26_SymbolsOfFirstSource ==
    lpc = "returned" => SymbolsOf(df_accum) = SymbolsOf(listings[OrderOf(listings)[1]])

DaysOf(rows) == {r.timestamp : r \in rows}

\* C27: the table get_ohlcv returns covers every trading day asked for that
\* has rows in the store or was fetched, whether all, some or none of the
\* days were stored before the call.
C27_CoversStoredAndFetched ==
    opc = "returned" => DaysOf(ohlcv) = loaded \cup (Missing(loaded) \cap answers)

\* C27 where it holds: with all of the days stored, or none of them.
C27_AllOrNoneStored ==
    (opc = "returned" /\ (loaded = {} \/ Missing(loaded) = {})) =>
        DaysOf(ohlcv) = loaded \cup (Missing(loaded) \cap answers)

\* The store keeps what it had and gains the fetched days.
C27_StoreComplete ==
    opc = "returned" => store = loaded \cup (Missing(loaded) \cap answers)

====
